---- MODULE Spec2Model ----
(***************************************************************************)
(* Model of consumers/kafka_consumer_seabaugh.py: the bootstrap of main(), *)
(* the bootstrap and the consuming loop of consume_messages_from_kafka(),  *)
(* process_message(), init_db() and insert_message().                      *)
(*                                                                         *)
(* Python values are tagged records [t, s, n]; floats are carried in       *)
(* hundredths (0.5 is 50).  An optional result (None or a dict) is a       *)
(* sequence of length 0 or 1.                                              *)
(***************************************************************************)
EXTENDS Integers, Sequences, FiniteSets, TLC

\* ------------------------------------------------------------------ bounds
MaxPulls == 3
MaxRuns == 2

\* ----------------------------------------------------------- Python values
PyAbsent == [t |-> "absent", s |-> "", n |-> 0]
PyNone == [t |-> "none", s |-> "", n |-> 0]
PyStr(x) == [t |-> "str", s |-> x, n |-> 0]
PyInt(k) == [t |-> "int", s |-> "", n |-> k]
PyFloat(h) == [t |-> "float", s |-> "", n |-> h]
PyList == [t |-> "list", s |-> "", n |-> 0]

\* The float NaN (json.loads accepts the literal NaN, float() the string
\* "nan"): a value outside the range of the scores, for which every
\* ordering comparison is false.
NaN == 1000000
FloatGt(a, b) == a # NaN /\ b # NaN /\ a > b
FloatLt(a, b) == a # NaN /\ b # NaN /\ a < b

None == <<>>
Some(x) == <<x>>

\* dict.get(key, default): an absent key yields the default, a key present
\* with the value null yields None.
Get(v, default) == IF v.t = "absent" THEN default ELSE v

\* Strings that float() parses, with their value in hundredths.
FloatStrings == [x \in {"0.5", "15", "3.7", "-0.5", "nan"} |->
                   CASE x = "0.5" -> 50
                     [] x = "nan" -> NaN
                     [] x = "15" -> 1500
                     [] x = "3.7" -> 370
                     [] x = "-0.5" -> -50]

\* Strings that int() parses.
IntStrings == [x \in {"15"} |-> 15]

\* float(v): None for a TypeError or ValueError.
ToFloat(v) ==
  CASE v.t = "float" -> Some(v.n)
    [] v.t = "int" -> Some(v.n * 100)
    [] v.t = "str" -> IF v.s \in DOMAIN FloatStrings
                      THEN Some(FloatStrings[v.s]) ELSE None
    [] OTHER -> None

\* int(v): truncation toward zero for a float; None for an error (NaN
\* included).
ToInt(v) ==
  CASE v.t = "int" -> Some(v.n)
    [] v.t = "float" /\ v.n = NaN -> None
    [] v.t = "float" -> Some(IF v.n >= 0 THEN v.n \div 100
                             ELSE -((-v.n) \div 100))
    [] v.t = "str" -> IF v.s \in DOMAIN IntStrings
                      THEN Some(IntStrings[v.s]) ELSE None
    [] OTHER -> None

KEYWORD_CATEGORIES == [k \in {"meme", "Python", "JavaScript", "recipe",
                              "travel", "movie", "game"} |->
                         CASE k = "meme" -> "humor"
                           [] k = "Python" -> "tech"
                           [] k = "JavaScript" -> "tech"
                           [] k = "recipe" -> "food"
                           [] k = "travel" -> "travel"
                           [] k = "movie" -> "entertainment"
                           [] k = "game" -> "gaming"]

\* Mutant of CategoryOf: the keyword is matched without regard to case.
CategoryOf_nocase(kw) ==
  CASE kw.t = "list" -> None
    [] kw.t = "str" /\ kw.s \in DOMAIN KEYWORD_CATEGORIES ->
         Some(KEYWORD_CATEGORIES[kw.s])
    [] kw.t = "str" /\ kw.s = "python" -> Some("tech")
    [] OTHER -> Some("unknown")

\* KEYWORD_CATEGORIES.get(keyword, "unknown"); an unhashable key raises.
CategoryOf(kw) ==
  CASE kw.t = "list" -> None
    [] kw.t = "str" /\ kw.s \in DOMAIN KEYWORD_CATEGORIES ->
         Some(KEYWORD_CATEGORIES[kw.s])
    [] OTHER -> Some("unknown")

\* Mutant of categorize_sentiment: the thresholds themselves count as
\* positive and negative.
categorize_sentiment_inclusive(score) ==
  IF score # NaN /\ score >= 10 THEN "positive"
  ELSE IF score # NaN /\ score <= -10 THEN "negative"
  ELSE "neutral"

\* Thresholds 0.1 and -0.1 in hundredths.
categorize_sentiment(score) ==
  IF FloatGt(score, 10) THEN "positive"
  ELSE IF FloatLt(score, -10) THEN "negative"
  ELSE "neutral"

\* A raw payload: kind "dict" for a mapping, anything else has no .get().
RawDict(msg, author, ts, kw, sent, len) ==
  [kind |-> "dict", message |-> msg, author |-> author, timestamp |-> ts,
   keyword_mentioned |-> kw, sentiment |-> sent, message_length |-> len]

RawList ==
  [kind |-> "list", message |-> PyAbsent, author |-> PyAbsent,
   timestamp |-> PyAbsent, keyword_mentioned |-> PyAbsent,
   sentiment |-> PyAbsent, message_length |-> PyAbsent]

\* Mutant of process_message: a sentiment that float() rejects falls back
\* to the default 0.0 instead of failing the record.
process_message_lenient(message) ==
  IF message.kind # "dict" THEN None
  ELSE
    LET keyword_mentioned == Get(message.keyword_mentioned, PyNone)
        category == CategoryOf(keyword_mentioned)
        parsed == ToFloat(Get(message.sentiment, PyFloat(0)))
        sentiment_score == IF parsed = None THEN Some(0) ELSE parsed
        message_length == ToInt(Get(message.message_length, PyInt(0)))
    IN IF category = None \/ message_length = None
       THEN None
       ELSE Some([message |-> Get(message.message, PyNone),
                  author |-> Get(message.author, PyNone),
                  timestamp |-> Get(message.timestamp, PyNone),
                  category |-> category[1],
                  sentiment |-> sentiment_score[1],
                  sentiment_category |-> categorize_sentiment(sentiment_score[1]),
                  keyword_mentioned |-> keyword_mentioned,
                  message_length |-> message_length[1]])

\* Mutant of process_message: a message_length that int() rejects is left
\* at 0 and the record is returned all the same.
process_message_partial(message) ==
  IF message.kind # "dict" THEN None
  ELSE
    LET keyword_mentioned == Get(message.keyword_mentioned, PyNone)
        category == CategoryOf(keyword_mentioned)
        sentiment_score == ToFloat(Get(message.sentiment, PyFloat(0)))
        parsed == ToInt(Get(message.message_length, PyInt(0)))
        message_length == IF parsed = None THEN Some(0) ELSE parsed
    IN IF category = None \/ sentiment_score = None
       THEN None
       ELSE Some([message |-> Get(message.message, PyNone),
                  author |-> Get(message.author, PyNone),
                  timestamp |-> Get(message.timestamp, PyNone),
                  category |-> category[1],
                  sentiment |-> sentiment_score[1],
                  sentiment_category |-> categorize_sentiment(sentiment_score[1]),
                  keyword_mentioned |-> keyword_mentioned,
                  message_length |-> message_length[1]])

\* process_message(message): the processed dict, or None when anything in
\* the try block raised.
process_message(message) ==
  IF message.kind # "dict" THEN None
  ELSE
    LET keyword_mentioned == Get(message.keyword_mentioned, PyNone)
        category == CategoryOf(keyword_mentioned)
        sentiment_score == ToFloat(Get(message.sentiment, PyFloat(0)))
        message_length == ToInt(Get(message.message_length, PyInt(0)))
    IN IF category = None \/ sentiment_score = None \/ message_length = None
       THEN None
       ELSE Some([message |-> Get(message.message, PyNone),
                  author |-> Get(message.author, PyNone),
                  timestamp |-> Get(message.timestamp, PyNone),
                  category |-> category[1],
                  sentiment |-> sentiment_score[1],
                  sentiment_category |-> categorize_sentiment(sentiment_score[1]),
                  keyword_mentioned |-> keyword_mentioned,
                  message_length |-> message_length[1]])


\* sqlite_path.unlink(): the file and everything in it is gone.
NoStore == [exists |-> FALSE, table |-> FALSE, rows |-> <<>>, seq |-> 0]

\* init_db(sql_path): connect creates the file when absent; CREATE TABLE IF
\* NOT EXISTS keeps the rows of a table that is already there.
init_db(db) ==
  IF db.table THEN [db EXCEPT !.exists = TRUE]
  ELSE [exists |-> TRUE, table |-> TRUE, rows |-> <<>>, seq |-> 0]

\* Mutant of insert_row: INSERT OR REPLACE on a fixed key, the new row
\* takes the place of the ones before it.
insert_row_replace(db, message) ==
  [db EXCEPT !.rows = <<[id |-> db.seq + 1, rec |-> message]>>,
             !.seq = db.seq + 1]

\* Mutant of insert_row: the id is counted down from the newest row, the
\* latest row comes first.
insert_row_front(db, message) ==
  [db EXCEPT !.rows = <<[id |-> -(db.seq + 1), rec |-> message]>> \o db.rows,
             !.seq = db.seq + 1]

\* Mutant of insert_row: the INSERT is executed twice.
insert_row_twice(db, message) ==
  [db EXCEPT !.rows = db.rows \o <<[id |-> db.seq + 1, rec |-> message],
                                   [id |-> db.seq + 2, rec |-> message]>>,
             !.seq = db.seq + 2]

\* The row insert_message binds from the processed dict; AUTOINCREMENT
\* gives it the next id of the table's sequence.
insert_row(db, message) ==
  [db EXCEPT !.rows = Append(db.rows, [id |-> db.seq + 1, rec |-> message]),
             !.seq = db.seq + 1]

\* Exit codes passed to sys.exit, by the step whose failure is handled.
ExitCodes == [config |-> 1, delete |-> 2, init |-> 3,
              verify |-> 11, create |-> 11, topic |-> 13, consumer_none |-> 13]

\* ------------------------------------------------------------------ inputs
GoodMeme == RawDict(PyStr("check this meme"), PyStr("alice"), PyStr("t1"),
                    PyStr("meme"), PyFloat(50), PyInt(15))
GoodPlain == RawDict(PyStr("hi"), PyStr("bob"), PyStr("t"),
                     PyAbsent, PyFloat(-50), PyInt(2))
BadSentiment == RawDict(PyStr("hi"), PyStr("bob"), PyStr("t"),
                        PyStr("meme"), PyStr("abc"), PyInt(2))
BadLength == RawDict(PyStr("hi"), PyStr("bob"), PyStr("t"),
                     PyStr("game"), PyFloat(0), PyStr("3.7"))
RawRecords == {GoodMeme, GoodPlain, BadSentiment, BadLength, RawList}

LeftoverRow == [id |-> 1, rec |-> process_message(GoodMeme)[1]]
InitialStores == {NoStore,
                  [exists |-> TRUE, table |-> FALSE, rows |-> <<>>, seq |-> 0],
                  [exists |-> TRUE, table |-> TRUE, rows |-> <<LeftoverRow>>,
                   seq |-> 1]}

\* ------------------------------------------------------------------- state
VARIABLES pc, run, store, prior, steps, consumer, cur, processed_message,
          pulled, outcome, exc, exitCode, log, intr, conns

vars == <<pc, run, store, prior, steps, consumer, cur, processed_message,
          pulled, outcome, exc, exitCode, log, intr, conns>>

NoExc == [type |-> "none", code |-> 0]
SystemExit(c) == [type |-> "SystemExit", code |-> c]

\* Positions of the loop body of consume_messages_from_kafka.
ConsumingPcs == {"pull", "process", "insert", "commit", "close"}
\* Positions inside consume_messages_from_kafka, where main's try is active.
InterruptiblePcs == {"c_verify", "c_create", "c_topic", "c_step4", "c_except"}
                      \cup ConsumingPcs

Init ==
  /\ pc = "m_config"
  /\ run = 1
  /\ store \in InitialStores
  /\ prior = store
  /\ steps = <<>>
  /\ consumer = FALSE
  /\ cur = RawList
  /\ processed_message = None
  /\ pulled = <<>>
  /\ outcome = <<>>
  /\ exc = NoExc
  /\ exitCode = 0
  /\ log = {}
  /\ intr = "none"
  /\ conns = 0

Done(step, result) == steps' = Append(steps, <<step, result>>)

\* sys.exit(code) in main, outside main's try: the process ends at once.
ExitMain(code) ==
  /\ pc' = "exited"
  /\ exitCode' = code
  /\ exc' = SystemExit(code)

\* sys.exit(code) inside consume_messages_from_kafka: SystemExit passes
\* both except clauses of main and runs its finally.
ExitConsume(code) ==
  /\ pc' = "m_finally"
  /\ exc' = SystemExit(code)
  /\ UNCHANGED exitCode

\* Mutant of ReadConfig: the prior store is removed before the
\* configuration is read.
ReadConfig_deleting ==
  /\ pc = "m_config"
  /\ store' = NoStore
  /\ \E ok \in BOOLEAN :
       IF ok
       THEN /\ pc' = "m_delete"
            /\ Done("config", "ok")
            /\ UNCHANGED <<exc, exitCode>>
       ELSE /\ ExitMain(ExitCodes.config)
            /\ Done("config", "raise")
  /\ UNCHANGED <<run, prior, consumer, cur, processed_message,
                 pulled, outcome, log, intr, conns>>

\* main, STEP 1.
ReadConfig ==
  /\ pc = "m_config"
  /\ \E ok \in BOOLEAN :
       IF ok
       THEN /\ pc' = "m_delete"
            /\ Done("config", "ok")
            /\ UNCHANGED <<exc, exitCode>>
       ELSE /\ ExitMain(ExitCodes.config)
            /\ Done("config", "raise")
  /\ UNCHANGED <<run, store, prior, consumer, cur, processed_message,
                 pulled, outcome, log, intr>>
  /\ UNCHANGED conns

\* Mutant of DeletePriorStore: the prior file is left in place.
DeletePriorStore_keep ==
  /\ pc = "m_delete"
  /\ pc' = "m_init"
  /\ Done("delete", IF store.exists THEN "ok" ELSE "skip")
  /\ UNCHANGED <<run, store, prior, consumer, cur, processed_message,
                 pulled, outcome, exc, exitCode, log, intr>>
  /\ UNCHANGED conns

\* main, STEP 2.
DeletePriorStore ==
  /\ pc = "m_delete"
  /\ IF store.exists
     THEN \E ok \in BOOLEAN :
            IF ok
            THEN /\ store' = NoStore
                 /\ pc' = "m_init"
                 /\ Done("delete", "ok")
                 /\ UNCHANGED <<exc, exitCode>>
            ELSE /\ ExitMain(ExitCodes.delete)
                 /\ Done("delete", "raise")
                 /\ UNCHANGED store
     ELSE /\ pc' = "m_init"
          /\ Done("delete", "skip")
          /\ UNCHANGED <<store, exc, exitCode>>
  /\ UNCHANGED <<run, prior, consumer, cur, processed_message,
                 pulled, outcome, log, intr>>
  /\ UNCHANGED conns

\* main, STEP 3.
InitStore ==
  /\ pc = "m_init"
  /\ \E ok \in BOOLEAN :
       IF ok
       THEN /\ store' = init_db(store)
            /\ pc' = "c_verify"
            /\ Done("init", "ok")
            /\ UNCHANGED <<exc, exitCode>>
       ELSE /\ ExitMain(ExitCodes.init)
            /\ Done("init", "raise")
            /\ UNCHANGED store
  /\ \E opened \in BOOLEAN :
       conns' = IF pc' = "exited" /\ opened THEN conns + 1 ELSE conns
  /\ UNCHANGED <<run, prior, consumer, cur, processed_message,
                 pulled, outcome, log, intr>>


\* Mutant of VerifyServices: the failure is logged and the function goes on.
VerifyServices_swallow ==
  /\ pc = "c_verify"
  /\ \E ok \in BOOLEAN :
       /\ pc' = "c_create"
       /\ Done("verify", IF ok THEN "ok" ELSE "raise")
  /\ UNCHANGED <<run, store, prior, consumer, cur, processed_message,
                 pulled, outcome, exc, exitCode, log, intr>>
  /\ UNCHANGED conns

\* consume_messages_from_kafka, Step 1.
VerifyServices ==
  /\ pc = "c_verify"
  /\ \E ok \in BOOLEAN :
       IF ok
       THEN /\ pc' = "c_create"
            /\ Done("verify", "ok")
            /\ UNCHANGED <<exc, exitCode>>
       ELSE /\ ExitConsume(ExitCodes.verify)
            /\ Done("verify", "raise")
  /\ UNCHANGED <<run, store, prior, consumer, cur, processed_message,
                 pulled, outcome, log, intr>>
  /\ UNCHANGED conns

\* consume_messages_from_kafka, Step 2: create_kafka_consumer returns a
\* consumer or None, or raises.
CreateConsumer ==
  /\ pc = "c_create"
  /\ \E r \in {"consumer", "none", "raise"} :
       IF r = "raise"
       THEN /\ ExitConsume(ExitCodes.create)
            /\ Done("create", "raise")
            /\ UNCHANGED consumer
       ELSE /\ consumer' = (r = "consumer")
            /\ pc' = "c_topic"
            /\ Done("create", r)
            /\ UNCHANGED <<exc, exitCode>>
  /\ UNCHANGED <<run, store, prior, cur, processed_message,
                 pulled, outcome, log, intr>>
  /\ UNCHANGED conns

\* consume_messages_from_kafka, Step 3: the value is_topic_available
\* returns is not looked at; only a raise is handled.
VerifyTopic ==
  /\ pc = "c_topic"
  /\ IF consumer
     THEN \E r \in {"true", "false", "raise"} :
            IF r = "raise"
            THEN /\ ExitConsume(ExitCodes.topic)
                 /\ Done("topic", "raise")
                 /\ UNCHANGED log
            ELSE /\ pc' = "c_step4"
                 /\ log' = log \cup {"topic_ready"}
                 /\ Done("topic", r)
                 /\ UNCHANGED <<exc, exitCode>>
     ELSE /\ pc' = "c_step4"
          /\ UNCHANGED <<steps, exc, exitCode, log>>
  /\ UNCHANGED <<run, store, prior, consumer, cur, processed_message,
                 pulled, outcome, intr>>
  /\ UNCHANGED conns

\* consume_messages_from_kafka, Step 4: the None check before the loop.
CheckConsumer ==
  /\ pc = "c_step4"
  /\ IF consumer
     THEN /\ pc' = "pull"
          /\ UNCHANGED <<exc, exitCode>>
     ELSE ExitConsume(ExitCodes.consumer_none)
  /\ UNCHANGED <<run, store, prior, steps, consumer, cur, processed_message,
                 pulled, outcome, log, intr>>
  /\ UNCHANGED conns

SetLast(seq, v) == [seq EXCEPT ![Len(seq)] = v]

\* for message in consumer: the next record arrives.
Pull ==
  /\ pc = "pull"
  /\ Len(pulled) < MaxPulls
  /\ \E r \in RawRecords :
       /\ cur' = r
       /\ pulled' = Append(pulled, r)
  /\ outcome' = Append(outcome, "pulled")
  /\ pc' = "process"
  /\ UNCHANGED <<run, store, prior, steps, consumer, processed_message,
                 exc, exitCode, log, intr>>
  /\ UNCHANGED conns

\* for message in consumer: the iterator raises.
StreamError ==
  /\ pc = "pull"
  /\ exc' = [type |-> "Exception", code |-> 0]
  /\ pc' = "c_except"
  /\ Done("stream", "raise")
  /\ UNCHANGED <<run, store, prior, consumer, cur, processed_message,
                 pulled, outcome, exitCode, log, intr>>
  /\ UNCHANGED conns

\* for message in consumer: the iterator is exhausted, the function returns.
StreamEnd ==
  /\ pc = "pull"
  /\ pc' = "m_finally"
  /\ UNCHANGED <<run, store, prior, steps, consumer, cur, processed_message,
                 pulled, outcome, exc, exitCode, log, intr>>
  /\ UNCHANGED conns

\* processed_message = process_message(message.value); if processed_message:
ProcessRecord ==
  /\ pc = "process"
  /\ processed_message' = process_message(cur)
  /\ IF processed_message' # None
     THEN /\ pc' = "insert"
          /\ outcome' = SetLast(outcome, "normalized")
          /\ UNCHANGED log
     ELSE /\ pc' = "pull"
          /\ outcome' = SetLast(outcome, "dropped")
          /\ log' = log \cup {"process_error"}
  /\ UNCHANGED <<run, store, prior, steps, consumer, cur,
                 pulled, exc, exitCode, intr>>
  /\ UNCHANGED conns

\* An sqlite3 error inside insert_message: nothing in the loop body handles
\* it, it reaches the except clause around the loop.
InsertRaises ==
  /\ exc' = [type |-> "Exception", code |-> 0]
  /\ pc' = "c_except"
  /\ outcome' = SetLast(outcome, "insert_failed")
  /\ UNCHANGED store

\* insert_message: connect, cursor, execute INSERT.  When connect raises
\* no connection was opened; when execute raises the connection stays
\* open, conn.close() is not reached.
InsertMessage ==
  /\ pc = "insert"
  /\ \E r \in {"ok", "connect_raises", "execute_raises"} :
       IF r = "ok" /\ store.table
       THEN /\ pc' = "commit"
            /\ conns' = conns + 1
            /\ UNCHANGED <<store, outcome, exc>>
       ELSE /\ InsertRaises
            /\ conns' = IF r = "connect_raises" THEN conns ELSE conns + 1
  /\ UNCHANGED <<run, prior, steps, consumer, cur, processed_message,
                 pulled, exitCode, log, intr>>

\* insert_message: conn.commit() makes the row durable.
Commit ==
  /\ pc = "commit"
  /\ \E ok \in BOOLEAN :
       IF ok
       THEN /\ store' = insert_row(store, processed_message[1])
            /\ outcome' = SetLast(outcome, "inserted")
            /\ pc' = "close"
            /\ UNCHANGED exc
       ELSE InsertRaises
  /\ UNCHANGED conns
  /\ UNCHANGED <<run, prior, steps, consumer, cur, processed_message,
                 pulled, exitCode, log, intr>>

\* insert_message: conn.close() and return to the head of the loop.
Close ==
  /\ pc = "close"
  /\ pc' = "pull"
  /\ conns' = conns - 1
  /\ UNCHANGED <<run, store, prior, steps, consumer, cur, processed_message,
                 pulled, outcome, exc, exitCode, log, intr>>

\* except Exception around the loop: log and re-raise.
LoopExcept ==
  /\ pc = "c_except"
  /\ log' = log \cup {"consume_error"}
  /\ pc' = "m_except"
  /\ UNCHANGED <<run, store, prior, steps, consumer, cur, processed_message,
                 pulled, outcome, exc, exitCode, intr>>
  /\ UNCHANGED conns

\* main: except Exception.  When the handler ends the exception and the
\* frames it holds are dropped; a connection left open in one of them is
\* closed if the interpreter collects it then.
MainExcept ==
  /\ pc = "m_except"
  /\ log' = log \cup {"unexpected_error"}
  /\ exc' = NoExc
  /\ pc' = "m_finally"
  /\ UNCHANGED <<run, store, prior, steps, consumer, cur, processed_message,
                 pulled, outcome, exitCode, intr>>
  /\ conns' \in {conns, 0}

\* main: except KeyboardInterrupt.
MainInterrupt ==
  /\ pc = "m_interrupt"
  /\ log' = log \cup {"interrupted"}
  /\ exc' = NoExc
  /\ pc' = "m_finally"
  /\ UNCHANGED <<run, store, prior, steps, consumer, cur, processed_message,
                 pulled, outcome, exitCode, intr>>
  /\ conns' \in {conns, 0}

\* main: finally, then the interpreter exits with the code of a pending
\* SystemExit, or 0 when main returns.
MainFinally ==
  /\ pc = "m_finally"
  /\ log' = log \cup {"shutdown"}
  /\ pc' = "exited"
  /\ exitCode' = IF exc.type = "SystemExit" THEN exc.code ELSE 0
  /\ UNCHANGED <<run, store, prior, steps, consumer, cur, processed_message,
                 pulled, outcome, exc, intr>>
  /\ UNCHANGED conns

\* Mutant of Interrupt: the clause around the loop catches BaseException,
\* so the interruption is handled as a stream error.
Interrupt_caught ==
  /\ pc \in InterruptiblePcs
  /\ intr = "none"
  /\ intr' = pc
  /\ exc' = [type |-> "KeyboardInterrupt", code |-> 0]
  /\ pc' = IF pc \in ConsumingPcs THEN "c_except" ELSE "m_interrupt"
  /\ UNCHANGED <<run, store, prior, steps, consumer, cur, processed_message,
                 pulled, outcome, exitCode, log>>
  /\ UNCHANGED conns

\* SIGINT while control is inside consume_messages_from_kafka: Python
\* raises KeyboardInterrupt at the current position; except Exception does
\* not catch it, main's except KeyboardInterrupt does.
Interrupt ==
  /\ pc \in InterruptiblePcs
  /\ intr = "none"
  /\ intr' = pc
  /\ exc' = [type |-> "KeyboardInterrupt", code |-> 0]
  /\ pc' = "m_interrupt"
  /\ UNCHANGED <<run, store, prior, steps, consumer, cur, processed_message,
                 pulled, outcome, exitCode, log>>
  /\ UNCHANGED conns

\* The operator starts the program again on the store the last run left.
Restart ==
  /\ pc = "exited"
  /\ run < MaxRuns
  /\ run' = run + 1
  /\ pc' = "m_config"
  /\ prior' = store
  /\ steps' = <<>>
  /\ consumer' = FALSE
  /\ cur' = RawList
  /\ processed_message' = None
  /\ pulled' = <<>>
  /\ outcome' = <<>>
  /\ exc' = NoExc
  /\ exitCode' = 0
  /\ log' = {}
  /\ intr' = "none"
  /\ conns' = 0
  /\ UNCHANGED store

Next ==
  \/ ReadConfig
  \/ DeletePriorStore
  \/ InitStore
  \/ VerifyServices
  \/ CreateConsumer
  \/ VerifyTopic
  \/ CheckConsumer
  \/ Pull
  \/ StreamError
  \/ StreamEnd
  \/ ProcessRecord
  \/ InsertMessage
  \/ Commit
  \/ Close
  \/ LoopExcept
  \/ MainExcept
  \/ MainInterrupt
  \/ MainFinally
  \/ Interrupt
  \/ Restart

Spec == Init /\ [][Next]_vars


\* The interpreter keeps running the handler it has entered.
FairSpec == Spec /\ WF_vars(MainInterrupt) /\ WF_vars(MainFinally)

\* ----------------------------------------------------------------- helpers
Range(seq) == {seq[i] : i \in 1..Len(seq)}
Indices(seq) == 1..Len(seq)
\* The step of this run whose raise ended the bootstrap, if any.
FailedStep ==
  IF steps # <<>> /\ steps[Len(steps)][2] = "raise"
  THEN steps[Len(steps)][1] ELSE "none"
\* main's store setup (STEP 2 and STEP 3) has succeeded in this run.
StoreSetUp == Len(steps) >= 3 /\ steps[3] = <<"init", "ok">>
Payloads(rows) == [i \in 1..Len(rows) |-> rows[i].rec]
MalformedRecords == {BadSentiment, BadLength, RawList}

\* C1: a pulled record with sentiment "abc", a non-integer message_length
\* or a payload that is no mapping is dropped: the step that handles it
\* inserts no row, raises nothing and returns the loop to the pull.
C1_BadRecordSkipped ==
  [][(pc = "process" /\ cur \in MalformedRecords /\ pc' # "m_interrupt")
       => /\ pc' = "pull"
          /\ store' = store
          /\ exc' = NoExc
          /\ outcome' = SetLast(outcome, "dropped")]_vars

\* C1 witness: a malformed record was dropped and a later well-formed one
\* was normalized and inserted.
C1_Witness ==
  /\ Len(pulled) = 2
  /\ pulled[1] = BadSentiment /\ outcome[1] = "dropped"
  /\ pulled[2] = GoodMeme /\ outcome[2] = "inserted"
  /\ Payloads(store.rows) = <<process_message(GoodMeme)[1]>>
  /\ pc = "pull"

\* C2 (as claimed): after an insert has raised, the loop is still consuming.
C2_InsertErrorKeepsLoop ==
  (\E i \in Indices(outcome) : outcome[i] = "insert_failed")
    => pc \in ConsumingPcs

\* C3 (as claimed): once the last pulled record has been handled, the table
\* holds one row per pulled record whose normalization succeeded.
C3_RowPerNormalized ==
  (pulled # <<>> /\ outcome[Len(outcome)] \in {"dropped", "inserted", "insert_failed"})
    => Len(store.rows) =
         Cardinality({i \in Indices(pulled) : process_message(pulled[i]) # None})

\* The processed records of the pulled records that normalized and whose
\* insert neither raised nor is still short of its commit, in pull order.
CommittedRecords ==
  LET keep(i) == /\ process_message(pulled[i]) # None
                 /\ outcome[i] \notin {"pulled", "normalized", "insert_failed"}
      idx == SelectSeq([i \in Indices(pulled) |-> i], keep)
  IN [k \in 1..Len(idx) |-> process_message(pulled[idx[k]])[1]]

\* C3 (amended): after store setup the table holds exactly one row per
\* pulled record that normalized and whose insert committed, duplicates
\* included; a normalized record whose insert raised, or that an
\* interruption cut off before the commit, has no row.
C3_RowPerCommitted ==
  StoreSetUp => Payloads(store.rows) = CommittedRecords

\* C3 witness: two identical records gave two rows and a third, whose
\* insert raised, gave none.
C3_Witness ==
  /\ pulled = <<GoodMeme, GoodMeme, GoodPlain>>
  /\ outcome = <<"inserted", "inserted", "insert_failed">>
  /\ Len(store.rows) = 2


FatalSteps == {"config", "delete", "init", "verify", "create", "topic"}

\* C4 (as claimed): a process that ended on one of the six fatal bootstrap
\* failures has a nonzero exit code that no other of the six failures uses.
C4_DistinctExitCodes ==
  (pc = "exited" /\ FailedStep \in FatalSteps)
    => /\ exitCode # 0
       /\ \A g \in FatalSteps \ {FailedStep} : ExitCodes[g] # exitCode

\* C5: the loop is consuming only after verify_services,
\* create_kafka_consumer and is_topic_available have returned without
\* raising, in that order; a run that one of them ended has pulled no
\* record and inserted no row and exits nonzero; no step runs twice.
C5_BootstrapOrder ==
  /\ pc \in ConsumingPcs =>
       /\ Len(steps) = 6
       /\ steps[4] = <<"verify", "ok">>
       /\ steps[5] = <<"create", "consumer">>
       /\ steps[6][1] = "topic" /\ steps[6][2] # "raise"
  /\ (FailedStep \in {"verify", "create", "topic"}) =>
       /\ pc \in {"m_finally", "exited"}
       /\ pulled = <<>>
       /\ store.rows = <<>>
       /\ exc.type = "SystemExit" /\ exc.code # 0
       /\ pc = "exited" => exitCode # 0
  /\ \A i, j \in Indices(steps) : i # j => steps[i][1] # steps[j][1]

\* C5 witness: all three checks passed and a record is being handled.
C5_Witness ==
  /\ pc = "process"
  /\ Len(steps) = 6
  /\ steps[6] = <<"topic", "true">>

\* C6 (as claimed): when is_topic_available raised or returned False, the
\* loop is never entered and the process exits nonzero.
C6_AbsentTopicIsFatal ==
  (\E i \in Indices(steps) : steps[i][1] = "topic" /\ steps[i][2] \in {"false", "raise"})
    => /\ pc \notin ConsumingPcs
       /\ pc = "exited" => exitCode # 0

\* C7 (as claimed): a process whose consumer iterator raised ends with an
\* exit code other than the 0 of a clean interruption.
C7_StreamErrorIsFatal ==
  (pc = "exited" /\ <<"stream", "raise">> \in Range(steps)) => exitCode # 0

\* C8: an interruption delivered in the loop goes to main's except
\* KeyboardInterrupt and nowhere else: the loop's except clause does not log
\* it, nothing more is pulled or inserted, the shutdown is logged and the
\* process exits with code 0.
C8_InterruptTerminates ==
  /\ [](intr \in ConsumingPcs =>
          /\ pc \in {"m_interrupt", "m_finally", "exited"}
          /\ "consume_error" \notin log
          /\ "unexpected_error" \notin log
          /\ pc \in {"m_finally", "exited"} => "interrupted" \in log
          /\ pc = "exited" => (exitCode = 0 /\ "shutdown" \in log))
  /\ [][(intr \in ConsumingPcs /\ pc # "exited")
          => (pulled' = pulled /\ store' = store /\ outcome' = outcome)]_vars
  /\ (intr \in ConsumingPcs) ~> (pc = "exited" /\ exitCode = 0)

\* C8 witness: interrupted while blocked in the pull, exited with 0.
C8_Witness ==
  /\ intr = "pull"
  /\ pc = "exited"
  /\ exitCode = 0
  /\ log = {"topic_ready", "interrupted", "shutdown"}

\* C9 (as claimed): no process terminated by an interruption has a pulled
\* record that normalized successfully and has no row.
C9_NoMidRecordAbort ==
  (pc = "exited" /\ intr \in ConsumingPcs)
    => \A i \in Indices(outcome) : outcome[i] # "normalized"

\* C10: once STEP 2 and STEP 3 of main have succeeded, and until the first
\* insert, the messages table exists and is empty, whatever the store held.
C10_FreshStore ==
  (StoreSetUp /\ \A i \in Indices(outcome) : outcome[i] # "inserted")
    => /\ store.exists
       /\ store.table
       /\ store.rows = <<>>
       /\ store.seq = 0

\* C10 witness: the second run starts on the two rows the first run left
\* and its setup has just succeeded.
C10_Witness ==
  /\ run = 2
  /\ Len(prior.rows) = 2
  /\ pc = "c_verify"
  /\ store.rows = <<>>


\* ------------------------------------------- one record through the core
\* Values a raw record can carry in the fields process_message coerces.
Keywords == {PyAbsent, PyNone, PyInt(5), PyList}
              \cup {PyStr(k) : k \in DOMAIN KEYWORD_CATEGORIES}
              \cup {PyStr("python"), PyStr("xyz"), PyStr("")}
Sentiments == {PyAbsent, PyNone, PyList, PyInt(0), PyInt(1),
               PyStr("abc"), PyStr("0.5"), PyStr("nan")}
                \cup {PyFloat(h) : h \in {-50, -11, -10, -9, 0, 9, 10, 11, 50, NaN}}
Lengths == {PyAbsent, PyNone, PyInt(0), PyInt(15), PyFloat(370), PyFloat(-370),
            PyFloat(NaN), PyStr("15"), PyStr("3.7"), PyStr("abc")}
NormInputs ==
  {RawDict(PyStr("hi"), PyStr("bob"), PyAbsent, kw, sent, len) :
     kw \in Keywords, sent \in Sentiments, len \in Lengths} \cup {RawList}

\* process_message is about to be called on one raw record; the table is
\* the empty one init_db creates.
NormInit ==
  /\ pc = "norm"
  /\ cur \in NormInputs
  /\ store = init_db(NoStore)
  /\ prior = NoStore
  /\ run = 1
  /\ steps = <<>>
  /\ consumer = TRUE
  /\ processed_message = None
  /\ pulled = <<>>
  /\ outcome = <<>>
  /\ exc = NoExc
  /\ exitCode = 0
  /\ log = {}
  /\ intr = "none"
  /\ conns = 0

\* processed_message = process_message(message.value)
Normalize ==
  /\ pc = "norm"
  /\ processed_message' = process_message(cur)
  /\ pc' = IF processed_message' # None THEN "norm_store" ELSE "norm_done"
  /\ UNCHANGED <<run, store, prior, steps, consumer, cur, pulled, outcome,
                 exc, exitCode, log, intr, conns>>

\* if processed_message: insert_message(processed_message, sql_path)
StoreNormalized ==
  /\ pc = "norm_store"
  /\ store' = insert_row(store, processed_message[1])
  /\ pc' = "norm_done"
  /\ UNCHANGED <<run, prior, steps, consumer, cur, processed_message, pulled,
                 outcome, exc, exitCode, log, intr, conns>>

NormNext ==
  \/ Normalize
  \/ StoreNormalized

NormSpec == NormInit /\ [][NormNext]_vars

\* process_message has returned a record for cur.
Normalized == pc \in {"norm_store", "norm_done"} /\ processed_message # None
\* process_message has returned, with or without a record.
Returned == pc \in {"norm_store", "norm_done"}
InNeutralRange(x) == x # NaN /\ -10 <= x /\ x <= 10
SentimentLabels == {"positive", "negative", "neutral"}

\* C11 (as claimed): the label is "positive" exactly for s > 0.1, "negative"
\* exactly for s < -0.1 and "neutral" exactly for -0.1 <= s <= 0.1.
C11_ThreeWaySplit ==
  Normalized =>
    LET x == processed_message[1].sentiment
        c == processed_message[1].sentiment_category
    IN /\ c = "positive" <=> FloatGt(x, 10)
       /\ c = "negative" <=> FloatLt(x, -10)
       /\ c = "neutral" <=> InNeutralRange(x)

\* The label the thresholds give a score, NaN falling through to neutral.
LabelOf(x) ==
  CASE FloatGt(x, 10) -> "positive"
    [] FloatLt(x, -10) -> "negative"
    [] InNeutralRange(x) \/ x = NaN -> "neutral"

\* C11 (amended): the label is "positive" exactly for s > 0.1, "negative"
\* exactly for s < -0.1, and "neutral" exactly for -0.1 <= s <= 0.1 or s
\* NaN; every row holds the label of the sentiment bound with it.
C11_ThreeWaySplitOrNaN ==
  /\ Normalized =>
       LET x == processed_message[1].sentiment
           c == processed_message[1].sentiment_category
       IN /\ c \in SentimentLabels
          /\ c = "positive" <=> FloatGt(x, 10)
          /\ c = "negative" <=> FloatLt(x, -10)
          /\ c = "neutral" <=> (InNeutralRange(x) \/ x = NaN)
  /\ \A i \in Indices(store.rows) :
       store.rows[i].rec.sentiment_category = LabelOf(store.rows[i].rec.sentiment)

\* C11 witness: the boundary score 0.1 was stored as neutral.
C11_Witness ==
  /\ pc = "norm_done"
  /\ Len(store.rows) = 1
  /\ store.rows[1].rec.sentiment = 10
  /\ store.rows[1].rec.sentiment_category = "neutral"

\* The keyword table as the specification lists it.
ListedCategories ==
  [k \in {"meme", "Python", "JavaScript", "recipe", "travel", "movie", "game"} |->
     CASE k \in {"Python", "JavaScript"} -> "tech"
       [] k = "meme" -> "humor"
       [] k = "recipe" -> "food"
       [] k = "travel" -> "travel"
       [] k = "movie" -> "entertainment"
       [] k = "game" -> "gaming"]

\* C12: the category of a normalized record is never null; it is the listed
\* label when keyword_mentioned is a listed keyword (exact match) and it is
\* "unknown" exactly when the keyword is null, absent or not listed.
C12_CategoryFromKeyword ==
  Normalized =>
    LET kw == cur.keyword_mentioned
        c == processed_message[1].category
        listed == kw.t = "str" /\ kw.s \in DOMAIN ListedCategories
    IN /\ c \in STRING /\ c # ""
       /\ listed => c = ListedCategories[kw.s]
       /\ c = "unknown" <=> ~listed

\* C12 witness: "python" is not the listed "Python".
C12_Witness ==
  /\ Normalized
  /\ cur.keyword_mentioned = PyStr("python")
  /\ processed_message[1].category = "unknown"

Missing(v) == v.t \in {"absent", "none"}

\* C13 (as claimed): a record whose sentiment or message_length is absent
\* or null, and whose other fields are sound, is normalized with the
\* defaults 0.0, "neutral" and 0.
C13_MissingDefaults ==
  (/\ Returned
   /\ cur.kind = "dict"
   /\ cur.keyword_mentioned.t # "list"
   /\ cur.sentiment.t \in {"absent", "none", "float", "int"}
   /\ cur.message_length.t \in {"absent", "none", "int"})
    => /\ processed_message # None
       /\ Missing(cur.sentiment) =>
            /\ processed_message[1].sentiment = 0
            /\ processed_message[1].sentiment_category = "neutral"
       /\ Missing(cur.message_length) =>
            processed_message[1].message_length = 0

EightFields == {"message", "author", "timestamp", "category", "sentiment",
                "sentiment_category", "keyword_mentioned", "message_length"}
\* Values float() and int() reject.
NotAFloat == {PyStr("abc"), PyNone, PyList}
NotAnInt == {PyStr("abc"), PyStr("3.7"), PyNone, PyFloat(NaN)}

\* C14: process_message returns nothing when the sentiment or the
\* message_length cannot be coerced, and otherwise nothing or a record that
\* has all eight fields, the derived ones computed.
C14_AllOrNothing ==
  Returned =>
    /\ (cur.sentiment \in NotAFloat \/ cur.message_length \in NotAnInt)
         => processed_message = None
    /\ processed_message # None =>
         /\ DOMAIN processed_message[1] = EightFields
         /\ processed_message[1].category \in STRING
         /\ processed_message[1].sentiment \in Int
         /\ processed_message[1].sentiment_category \in SentimentLabels
         /\ processed_message[1].message_length \in Int

\* C14 witness: a sound sentiment with a message_length of "3.7" gave no
\* record.
C14_Witness ==
  /\ pc = "norm_done"
  /\ cur.sentiment = PyFloat(50)
  /\ cur.message_length = PyStr("3.7")
  /\ processed_message = None
  /\ store.rows = <<>>


\* C16 (as claimed): outside a call of insert_message, whether it returned
\* or raised, no connection is open.
C16_ConnectionsReleased ==
  (pc \notin {"commit", "close", "exited"} /\ intr = "none") => conns = 0

IsPrefix(a, b) == Len(a) <= Len(b) /\ \A i \in Indices(a) : b[i] = a[i]

\* C17: from the store setup of a run to its end no step removes or changes
\* a row: the rows before a step are a prefix of the rows after it.
C17_AppendOnly ==
  [][(StoreSetUp /\ run' = run) => IsPrefix(store.rows, store'.rows)]_vars

\* C17 witness: a row outlived a dropped record, a failed insert and the
\* end of the run.
C17_Witness ==
  /\ outcome = <<"inserted", "dropped", "insert_failed">>
  /\ pc = "exited"
  /\ Payloads(store.rows) = <<process_message(pulled[1])[1]>>

\* C18: every record but the one last pulled has been inserted or dropped;
\* the rows, taken by ascending id, are the committed records in the order
\* they were pulled.
C18_StreamOrder ==
  StoreSetUp =>
    /\ \A i \in Indices(outcome) :
         i < Len(outcome) => outcome[i] \in {"inserted", "dropped"}
    /\ \A a, b \in Indices(store.rows) :
         store.rows[a].id < store.rows[b].id <=> a < b
    /\ Payloads(store.rows) = CommittedRecords
    /\ Len(store.rows) <= Len(pulled)

\* C18 witness: two different records around a dropped one, stored in the
\* order pulled under ids 1 and 2.
C18_Witness ==
  /\ pulled = <<GoodPlain, BadLength, GoodMeme>>
  /\ outcome = <<"inserted", "dropped", "inserted">>
  /\ Len(store.rows) = 2
  /\ store.rows[1].id = 1 /\ store.rows[1].rec = process_message(GoodPlain)[1]
  /\ store.rows[2].id = 2 /\ store.rows[2].rec = process_message(GoodMeme)[1]

\* C19: a run that exited with the code of the broker, consumer or topic
\* failure has an empty messages table, the rows of the run before are
\* gone; a run that exited with the code of the config failure left the
\* store as it found it.
C19_DeleteBeforeChecks ==
  pc = "exited" =>
    /\ exitCode \in {ExitCodes.verify, ExitCodes.create, ExitCodes.topic} =>
         (store.exists /\ store.table /\ store.rows = <<>>)
    /\ exitCode = ExitCodes.config => store = prior

\* C19 witness: the second run found rows of the first and ended on the
\* topic check with the table empty.
C19_Witness ==
  /\ run = 2
  /\ prior.rows # <<>>
  /\ pc = "exited"
  /\ FailedStep = "topic"
  /\ exitCode = 13
  /\ store.rows = <<>>

====
